---- MODULE Spec2Model ----
(***************************************************************************)
(* A model of the tomv configuration library: discovery of TOML documents, *)
(* namespacing, placeholder substitution, key lookup with conflict         *)
(* detection, and the timestamp-driven cache in front of them.             *)
(*                                                                         *)
(* Strings are sequences of atoms.  The separators "." and "/" and the     *)
(* delimiters "{{" and "}}" are atoms of their own, every other atom is a  *)
(* run of characters that contains none of them, so strings.Split,         *)
(* strings.Contains, filepath.Base and the placeholder pattern are         *)
(* computed on the text and not assumed.                                   *)
(***************************************************************************)
EXTENDS Naturals, Sequences, FiniteSets, TLC

VARIABLES
    fs,         \* the project directory: location -> [exists, doc, mtime]
    now,        \* the file system clock
    cache,      \* cache: key -> cacheEntry, as a set of [key, value, err]
    fileCache,  \* fileCache: location -> last-seen modification time
    readers,    \* callers holding cacheMutex.RLock
    writer,     \* the caller holding cacheMutex.Lock, or NoProc
    pc,         \* where each caller is inside getValueFromCache
    key,        \* the key each caller looks up
    result,     \* what the caller's last lookup returned
    dirty,      \* history: a document advanced its mtime since the last stamp
    rebuildClean, \* history: no document changed since the running rebuild stamped
    last,       \* history: the run of same-key lookups since the last change
    steps       \* history: the calls and file system changes made so far

vars == <<fs, now, cache, fileCache, readers, writer, pc, key, result,
          dirty, rebuildClean, last, steps>>

----------------------------------------------------------------------------
(* Strings *)

\* strings.Index on atoms: the first position of atom a in s, 0 when absent
IndexOf(s, a) ==
    IF \E i \in 1..Len(s) : s[i] = a
    THEN CHOOSE i \in 1..Len(s) : s[i] = a /\ \A j \in 1..(i - 1) : s[j] # a
    ELSE 0

\* strings.LastIndex on atoms
LastIndexOf(s, a) ==
    IF \E i \in 1..Len(s) : s[i] = a
    THEN CHOOSE i \in 1..Len(s) : s[i] = a /\ \A j \in (i + 1)..Len(s) : s[j] # a
    ELSE 0

\* strings.Contains(s, a)
Contains(s, a) == IndexOf(s, a) # 0

\* strings.Split(s, sep)
RECURSIVE Split(_, _)
Split(s, sep) ==
    LET i == IndexOf(s, sep)
    IN  IF i = 0 THEN <<s>>
        ELSE <<SubSeq(s, 1, i - 1)>> \o Split(SubSeq(s, i + 1, Len(s)), sep)

\* strings.SplitN(s, sep, 2)
SplitN2(s, sep) ==
    LET i == IndexOf(s, sep)
    IN  IF i = 0 THEN <<s>>
        ELSE <<SubSeq(s, 1, i - 1), SubSeq(s, i + 1, Len(s))>>

\* strings.HasPrefix(s, <<a>>)
HasPrefix(s, a) == Len(s) > 0 /\ s[1] = a

\* strings.HasSuffix(s, suf)
HasSuffix(s, suf) ==
    Len(s) >= Len(suf) /\ SubSeq(s, Len(s) - Len(suf) + 1, Len(s)) = suf

\* strings.TrimSuffix(s, suf)
TrimSuffix(s, suf) ==
    IF HasSuffix(s, suf) THEN SubSeq(s, 1, Len(s) - Len(suf)) ELSE s

\* filepath.Base(path): the last element of the path
Base(path) == SubSeq(path, LastIndexOf(path, "/") + 1, Len(path))

\* filepath.Ext(name): the suffix beginning at the final dot, "" without a dot
Ext(name) ==
    LET i == LastIndexOf(name, ".")
    IN  IF i = 0 THEN <<>> ELSE SubSeq(name, i, Len(name))

\* strings.ToLower on the extension atoms that occur
ToLower(s) == [i \in 1..Len(s) |-> IF s[i] = "TOML" THEN "toml" ELSE s[i]]

\* the concatenation of a sequence of strings
RECURSIVE Concat(_)
Concat(ss) == IF ss = <<>> THEN <<>> ELSE Head(ss) \o Concat(Tail(ss))

\* the elements of a sequence
Range(s) == {s[i] : i \in 1..Len(s)}

\* strings.Join(parts, ".")
RECURSIVE JoinDots(_)
JoinDots(parts) ==
    IF parts = <<>> THEN <<>>
    ELSE IF Len(parts) = 1 THEN parts[1]
    ELSE parts[1] \o <<".">> \o JoinDots(Tail(parts))

\* a value computed once and used under a name, as x := v in the code
With(v, F(_)) == F(v)

\* the permutations of a finite set, as sequences
RECURSIVE Perms(_)
Perms(S) ==
    IF S = {} THEN {<<>>}
    ELSE UNION {{<<x>> \o p : p \in Perms(S \ {x})} : x \in S}

----------------------------------------------------------------------------
(* Documents: the map[string]interface{} a TOML file decodes to.  A node   *)
(* is a string leaf, an array leaf or a table; a number or boolean leaf is *)
(* the string fmt.Sprintf("%v") renders it as, and an array leaf keeps the *)
(* text fmt.Sprintf("%v") renders the array as.                            *)

Leaf(v) == [t |-> "str", v |-> v, m |-> <<>>]
Array(v) == [t |-> "arr", v |-> v, m |-> <<>>]
Table(m) == [t |-> "map", v |-> <<>>, m |-> m]

\* every key a table of the model uses, in the sorted order fmt prints maps in
AllSegs ==
    << <<"a">>, <<"app">>, <<"b">>, <<"c">>, <<"cache">>, <<"circular">>,
       <<"connection">>, <<"database">>, <<"db">>, <<"debug">>, <<"empty">>,
       <<"existing">>, <<"flag">>, <<"host">>, <<"hosts">>, <<"k01">>, <<"k02">>, <<"k03">>,
       <<"k04">>, <<"k05">>, <<"k06">>, <<"k07">>, <<"k08">>, <<"k09">>, <<"k10">>,
       <<"k11">>, <<"my", ".", "app">>, <<"name">>, <<"nums">>, <<"off">>, <<"other">>,
       <<"password">>, <<"port">>, <<"ports">>, <<"primary">>, <<"ratio">>,
       <<"server">>, <<"test">>, <<"timeout">>, <<"tls">>, <<"url">>, <<"value">> >>

SortedKeys(m) == SelectSeq(AllSegs, LAMBDA k : k \in DOMAIN m)

\* fmt.Sprintf("%v", value): a leaf's text, or map[k:v k:v] for a table
RECURSIVE Sprint(_)
Sprint(node) ==
    IF node.t # "map" THEN node.v
    ELSE LET ks == SortedKeys(node.m)
             entry(i) == (IF i > 1 THEN <<" ">> ELSE <<>>)
                         \o ks[i] \o <<":">> \o Sprint(node.m[ks[i]])
         IN  <<"map[">> \o Concat([i \in 1..Len(ks) |-> entry(i)]) \o <<"]">>

\* the paths (sequences of keys) of the leaves of a table
RECURSIVE LeafPaths(_)
LeafPaths(m) ==
    UNION { IF m[k].t = "map"
            THEN {<<k>> \o p : p \in LeafPaths(m[k].m)}
            ELSE {<<k>>} : k \in DOMAIN m }

\* the node at a path of keys
RECURSIVE GetAt(_, _)
GetAt(m, path) ==
    IF Len(path) = 1 THEN m[path[1]] ELSE GetAt(m[path[1]].m, Tail(path))

\* current[key] = node at a path of keys, the tables above it kept
RECURSIVE SetAt(_, _, _)
SetAt(m, path, node) ==
    IF Len(path) = 1 THEN [m EXCEPT ![path[1]] = node]
    ELSE [m EXCEPT ![path[1]] = Table(SetAt(m[path[1]].m, Tail(path), node))]

----------------------------------------------------------------------------
(* Errors and outcomes.  An error keeps what its message names: the kind,  *)
(* the subject, the files it lists in order, the available keys it lists   *)
(* (a set: collectKeys ranges over a map) and the forms it suggests.       *)

Err(kind, subject, files, avail, suggest) ==
    [kind |-> kind, subject |-> subject, files |-> files, avail |-> avail,
     suggest |-> suggest]

NoErr == Err("nil", <<>>, <<>>, {}, <<>>)

Outcome(value, err) == [value |-> value, err |-> err]

----------------------------------------------------------------------------
(* The substitution engine *)

\* maxPasses of resolveVariables
maxPasses == 10

\* variablePattern.FindAllStringSubmatch(str, -1) for \{\{([^}]+)\}\}:
\* the leftmost non-overlapping matches from position i on, each as
\* [placeholder |-> the full match, path |-> the text between the braces]
RECURSIVE FindAllFrom(_, _)
FindAllFrom(str, i) ==
    IF i > Len(str) THEN <<>>
    ELSE IF str[i] # "{{" THEN FindAllFrom(str, i + 1)
    ELSE LET rest == SubSeq(str, i + 1, Len(str))
             j == IndexOf(rest, "}}")
         IN  IF j <= 1 THEN FindAllFrom(str, i + 1)
             ELSE << [placeholder |-> SubSeq(str, i, i + j),
                      path |-> SubSeq(rest, 1, j - 1)] >>
                  \o FindAllFrom(str, i + j + 1)

FindAll(str) == FindAllFrom(str, 1)

\* strings.ReplaceAll(s, old, new), old not empty
RECURSIVE ReplaceAll(_, _, _)
ReplaceAll(s, old, new) ==
    IF Len(s) < Len(old) THEN s
    ELSE IF SubSeq(s, 1, Len(old)) = old
         THEN new \o ReplaceAll(SubSeq(s, Len(old) + 1, Len(s)), old, new)
         ELSE <<s[1]>> \o ReplaceAll(Tail(s), old, new)

\* the loop of resolveVariablePath over the parts of the path
RECURSIVE walkVariablePath(_, _)
walkVariablePath(current, parts) ==
    LET part == Head(parts)
    IN  IF Len(parts) = 1
        THEN IF part \in DOMAIN current
             THEN [found |-> TRUE, value |-> Sprint(current[part])]
             ELSE [found |-> FALSE, value |-> <<>>]
        ELSE IF part \in DOMAIN current /\ current[part].t = "map"
             THEN walkVariablePath(current[part].m, Tail(parts))
             ELSE [found |-> FALSE, value |-> <<>>]

\* a fault: resolveVariablePath reporting every path as found, a path with
\* no value as the empty string
resolveVariablePathAlwaysFound(path, data) ==
    [found |-> TRUE, value |-> walkVariablePath(data, Split(path, ".")).value]

\* resolveVariablePath(path, data)
resolveVariablePath(path, data) == walkVariablePath(data, Split(path, "."))

\* collectKeys(data, prefix, &keys): the full keys of the leaves
collectKeys(data) == {JoinDots(p) : p \in LeafPaths(data)}

\* resolveStringVariables(str, data): [result, hasVariables, err]
RECURSIVE substituteMatches(_, _, _)
substituteMatches(res, matches, data) ==
    IF matches = <<>> THEN [result |-> res, err |-> NoErr]
    ELSE With(resolveVariablePath(Head(matches).path, data), LAMBDA r :
             IF ~r.found
             THEN [result |-> <<>>,
                   err |-> Err("UndefinedVariable", Head(matches).path, <<>>,
                               collectKeys(data), <<>>)]
             ELSE IF Contains(r.value, "{{")
                  THEN substituteMatches(res, Tail(matches), data)
                  ELSE substituteMatches(
                           ReplaceAll(res, Head(matches).placeholder, r.value),
                           Tail(matches), data))

resolveStringVariables(str, data) ==
    With(FindAll(str), LAMBDA matches :
        With(substituteMatches(str, matches, data), LAMBDA r :
            [result |-> r.result, hasVariables |-> matches # <<>>, err |-> r.err]))

\* the string leaves that hold an opening delimiter: the only leaves a pass
\* can change or fail on
OpenLeaves(data) ==
    {p \in LeafPaths(data) :
        GetAt(data, p).t = "str" /\ Contains(GetAt(data, p).v, "{{")}

\* a fault: hasUnresolvedVariables looking for whole placeholders only
hasUnresolvedVariablesWholeOnly(data) ==
    \E p \in OpenLeaves(data) : FindAll(GetAt(data, p).v) # <<>>

\* a fault: hasUnresolvedVariables answering true for every map
hasUnresolvedVariablesAlways(data) == TRUE

\* hasUnresolvedVariables(data)
hasUnresolvedVariables(data) == OpenLeaves(data) # {}

\* the largest set of leaves whose every visiting order is explored; of a
\* larger set the sorted order and its reverse are
MaxPermuted == 4

\* the position of a key in the sorted order of keys
KeyRank(k) == CHOOSE i \in 1..Len(AllSegs) : AllSegs[i] = k

\* path p comes before path q, or is q, in the sorted order of paths
RECURSIVE PathLeq(_, _)
PathLeq(p, q) ==
    IF p = <<>> THEN TRUE
    ELSE IF q = <<>> THEN FALSE
    ELSE IF Head(p) = Head(q) THEN PathLeq(Tail(p), Tail(q))
    ELSE KeyRank(Head(p)) < KeyRank(Head(q))

\* the paths of S in sorted order
RECURSIVE Ascending(_)
Ascending(S) ==
    IF S = {} THEN <<>>
    ELSE With(CHOOSE p \in S : \A q \in S : PathLeq(p, q), LAMBDA first :
             <<first>> \o Ascending(S \ {first}))

\* a sequence reversed
Reverse(s) == [i \in 1..Len(s) |-> s[Len(s) + 1 - i]]

\* the orders in which a range over the nested maps can visit the leaves of
\* S: the leaves below one table are visited together
Orders(S) ==
    IF Cardinality(S) > MaxPermuted THEN {Ascending(S), Reverse(Ascending(S))}
    ELSE
    {o \in Perms(S) :
        \A i, k \in 1..Len(o) :
            \A n \in 1..Len(o[i]) :
                (i < k /\ Len(o[k]) >= n /\ SubSeq(o[i], 1, n) = SubSeq(o[k], 1, n))
                => \A j \in i..k : Len(o[j]) >= n /\ SubSeq(o[j], 1, n) = SubSeq(o[i], 1, n)}

\* processMapForVariables(resolved, resolved, &changed), visiting in order ord
RECURSIVE processMapForVariables(_, _, _)
processMapForVariables(data, ord, changed) ==
    IF ord = <<>> THEN [data |-> data, changed |-> changed, err |-> NoErr]
    ELSE With(GetAt(data, Head(ord)).v, LAMBDA v :
         With(resolveStringVariables(v, data), LAMBDA r :
             IF r.err # NoErr THEN [data |-> data, changed |-> changed, err |-> r.err]
             ELSE IF r.hasVariables /\ r.result # v
                  THEN processMapForVariables(SetAt(data, Head(ord), Leaf(r.result)),
                                              Tail(ord), TRUE)
                  ELSE processMapForVariables(data, Tail(ord), changed)))

\* collectDependencies(data, "", deps): full key -> the paths it references
collectDependencies(data) ==
    [k \in {JoinDots(p) : p \in {q \in LeafPaths(data) :
                                    /\ GetAt(data, q).t = "str"
                                    /\ FindAll(GetAt(data, q).v) # <<>>}} |->
        With(FindAll(GetAt(data, CHOOSE q \in LeafPaths(data) : JoinDots(q) = k).v),
             LAMBDA ms : [i \in 1..Len(ms) |-> ms[i].path])]

\* the nodes reachable from the nodes of S along dependency edges
RECURSIVE Reach(_, _)
Reach(deps, S) ==
    LET next == S \cup UNION {Range(deps[n]) : n \in S \cap DOMAIN deps}
    IN  IF next = S THEN S ELSE Reach(deps, next)

\* hasCycle(node, graph, visited, recStack), for a node visited before every
\* other node that reaches a cycle: the search finds a back edge exactly when
\* the node reaches a node that reaches itself
hasCycle(node, graph) ==
    \E n \in Reach(graph, {node}) \cap DOMAIN graph :
        n \in Reach(graph, Range(graph[n]))

\* the loop of findCycle: follow the first dependency of each node
RECURSIVE walkFirstDependencies(_, _, _, _)
walkFirstDependencies(path, current, visited, graph) ==
    IF current \in DOMAIN graph /\ current \notin visited
    THEN With(Append(path, graph[current][1]), LAMBDA longer :
             IF \E i \in 1..(Len(longer) - 1) : longer[i] = longer[Len(longer)]
             THEN SubSeq(longer,
                         CHOOSE i \in 1..(Len(longer) - 1) :
                             /\ longer[i] = longer[Len(longer)]
                             /\ \A j \in 1..(i - 1) : longer[j] # longer[Len(longer)],
                         Len(longer))
             ELSE walkFirstDependencies(longer, longer[Len(longer)],
                                        visited \cup {current}, graph))
    ELSE path

\* findCycle(start, graph)
findCycle(start, graph) == walkFirstDependencies(<<start>>, start, {}, graph)

\* strings.Join(elems, sep)
RECURSIVE Join(_, _)
Join(elems, sep) ==
    IF elems = <<>> THEN <<>>
    ELSE IF Len(elems) = 1 THEN Head(elems)
    ELSE Head(elems) \o <<sep>> \o Join(Tail(elems), sep)

\* the variables of the dependency map in the order ord visits their leaves
RECURSIVE VariablesIn(_, _)
VariablesIn(deps, ord) ==
    IF ord = <<>> THEN <<>>
    ELSE IF JoinDots(Head(ord)) \in DOMAIN deps
         THEN <<JoinDots(Head(ord))>> \o VariablesIn(deps, Tail(ord))
         ELSE VariablesIn(deps, Tail(ord))

\* detectCircularDependencies(data), its range over the dependencies visiting
\* the variables in order ord; the subject of the error is the joined path
detectCircularDependencies(data, ord) ==
    With(collectDependencies(data), LAMBDA dependencies :
        With(VariablesIn(dependencies, ord), LAMBDA variables :
            IF \E i \in 1..Len(variables) : hasCycle(variables[i], dependencies)
            THEN Err("CircularDependency",
                     Join(findCycle(variables[CHOOSE i \in 1..Len(variables) :
                              /\ hasCycle(variables[i], dependencies)
                              /\ \A j \in 1..(i - 1) :
                                     ~hasCycle(variables[j], dependencies)],
                          dependencies), "->"),
                     <<>>, {}, <<>>)
            ELSE Err("MaxPassesExceeded", <<>>, <<>>, {}, <<>>)))

RECURSIVE resolvePasses(_, _, _)

\* a fault: the pass loop without its ceiling, running until a pass changes
\* nothing
resolvePassesWithoutCeiling(resolved, ord, pass) ==
    With(processMapForVariables(resolved, ord, FALSE), LAMBDA r :
        IF r.err # NoErr THEN [data |-> <<>>, err |-> r.err, passes |-> pass + 1]
        ELSE IF ~r.changed /\ hasUnresolvedVariables(r.data)
             THEN [data |-> <<>>, err |-> detectCircularDependencies(r.data, ord),
                   passes |-> pass + 1]
             ELSE IF ~r.changed THEN [data |-> r.data, err |-> NoErr, passes |-> pass + 1]
             ELSE resolvePasses(r.data, ord, pass + 1))

\* resolveVariables(data), its passes visiting the leaves in order ord; pass
\* is the index of the pass to run, passes the number of passes run
resolvePasses(resolved, ord, pass) ==
    With(processMapForVariables(resolved, ord, FALSE), LAMBDA r :
        IF r.err # NoErr THEN [data |-> <<>>, err |-> r.err, passes |-> pass + 1]
        ELSE IF (~r.changed /\ hasUnresolvedVariables(r.data))
                \/ (r.changed /\ pass = maxPasses - 1)
             THEN [data |-> <<>>, err |-> detectCircularDependencies(r.data, ord),
                   passes |-> pass + 1]
             ELSE IF ~r.changed THEN [data |-> r.data, err |-> NoErr, passes |-> pass + 1]
             ELSE resolvePasses(r.data, ord, pass + 1))

resolveVariables(data, ord) == resolvePasses(data, ord, 0)

----------------------------------------------------------------------------
(* Discovery and lookup *)

\* what a location of the project directory holds
NoFile == [exists |-> FALSE, doc |-> "none", mtime |-> 0]
File(doc, mtime) == [exists |-> TRUE, doc |-> doc, mtime |-> mtime]

\* the keys of a chain of references, in sorted order
ChainKeys ==
    << <<"k01">>, <<"k02">>, <<"k03">>, <<"k04">>, <<"k05">>, <<"k06">>, <<"k07">>,
       <<"k08">>, <<"k09">>, <<"k10">>, <<"k11">> >>

\* a document of app.toml whose key ChainKeys[i] holds a reference to the
\* next key, from ChainKeys[first] on; the last key holds a plain string
ChainData(first) ==
    [k \in {ChainKeys[i] : i \in first..Len(ChainKeys)} |->
        With(CHOOSE i \in 1..Len(ChainKeys) : ChainKeys[i] = k, LAMBDA i :
            IF i = Len(ChainKeys) THEN Leaf(<<"end">>)
            ELSE Leaf(<<"{{", "app", ".">> \o ChainKeys[i + 1] \o <<"}}">>))]

\* the documents a file can hold: what toml.DecodeFile makes of each
Content(doc) ==
    CASE doc = "port1" ->
           [ok |-> TRUE, data |->
              (<<"server">> :> Table(<<"port">> :> Leaf(<<"3000">>)))]
      [] doc = "port2" ->
           [ok |-> TRUE, data |->
              (<<"server">> :> Table(<<"port">> :> Leaf(<<"4000">>)))]
      [] doc = "host" ->
           [ok |-> TRUE, data |->
              (<<"server">> :> Table(<<"host">> :> Leaf(<<"localhost">>)))]
      [] doc = "deep" ->
           [ok |-> TRUE, data |->
              (<<"server">> :> Table(<<"tls">> :> Table(<<"port">> :> Leaf(<<"443">>)))
               @@ <<"a">> :> Leaf(<<"1">>))]
      [] doc = "deep2" ->
           [ok |-> TRUE, data |->
              (<<"server">> :> Table(<<"tls">> :> Table(<<"port">> :> Leaf(<<"8443">>))))]
      [] doc = "flat" ->
           [ok |-> TRUE, data |->
              (<<"a">> :> Leaf(<<"2">>) @@ <<"b">> :> Leaf(<<"x">>))]
      [] doc = "refs" ->
           [ok |-> TRUE, data |->
              (<<"server">> :> Table(<<"port">> :> Leaf(<<"5000">>)
                               @@ <<"url">> :> Leaf(<<"http://", "{{", "db", ".", "server",
                                                      ".", "port", "}}">>)))]
      [] doc = "cycle" ->
           [ok |-> TRUE, data |->
              (<<"c">> :> Leaf(<<"{{", "db", ".", "c", "}}">>))]
      [] doc = "ucycle" ->
           [ok |-> TRUE, data |->
              (<<"circular">> :> Table(<<"a">> :> Leaf(<<"{{", "circular", ".", "b", "}}">>)
                                 @@ <<"b">> :> Leaf(<<"{{", "circular", ".", "a", "}}">>)))]
      [] doc = "qcycle" ->
           [ok |-> TRUE, data |->
              (<<"circular">> :>
                 Table(<<"a">> :> Leaf(<<"{{", "app", ".", "circular", ".", "b", "}}">>)
                       @@ <<"b">> :> Leaf(<<"{{", "app", ".", "circular", ".", "a", "}}">>)))]
      [] doc = "undef" ->
           [ok |-> TRUE, data |->
              (<<"test">> :> Table(<<"value">> :> Leaf(<<"{{", "missing", ".", "variable", "}}">>)
                             @@ <<"existing">> :> Leaf(<<"valid">>)))]
      [] doc = "undef2" ->
           [ok |-> TRUE, data |->
              (<<"other">> :> Leaf(<<"{{", "missing", ".", "other", "}}">>))]
      [] doc = "uref" ->
           [ok |-> TRUE, data |->
              (<<"database">> :> Table(<<"host">> :> Leaf(<<"localhost">>))
               @@ <<"connection">> :>
                    Table(<<"primary">> :> Leaf(<<"pg://", "{{", "database", ".", "host", "}}">>)))]
      [] doc = "xref" ->
           [ok |-> TRUE, data |->
              (<<"cache">> :>
                 Table(<<"url">> :> Leaf(<<"redis://", "{{", "database", ".", "host", "}}">>)))]
      [] doc = "dbhost" ->
           [ok |-> TRUE, data |->
              (<<"database">> :> Table(<<"host">> :> Leaf(<<"localhost">>)))]
      [] doc = "qchain" ->
           [ok |-> TRUE, data |->
              (<<"a">> :> Leaf(<<"{{", "app", ".", "b", "}}">>)
               @@ <<"b">> :> Leaf(<<"{{", "app", ".", "c", "}}", "-x">>)
               @@ <<"c">> :> Leaf(<<"1">>))]
      [] doc = "spur" ->
           [ok |-> TRUE, data |->
              (<<"a">> :> Leaf(<<"{{", "app", ".", "c", "}}", "{{", "app", ".", "b", "}}">>)
               @@ <<"b">> :> Leaf(<<"{{", "app", ".", "a", "}}">>)
               @@ <<"c">> :> Leaf(<<"{{", "oops">>))]
      [] doc = "open" ->
           [ok |-> TRUE, data |->
              (<<"server">> :> Table(<<"port">> :> Leaf(<<"3000">>)
                               @@ <<"url">> :> Leaf(<<"{{", "app", ".", "server", ".", "port",
                                                      "}}", ":", "{{", "db", ".", "a">>)))]
      [] doc = "chain9" -> [ok |-> TRUE, data |-> ChainData(2)]
      [] doc = "chain10" -> [ok |-> TRUE, data |-> ChainData(1)]
      [] doc = "env" ->
           [ok |-> TRUE, data |->
              (<<"server">> :> Table(<<"port">> :> Leaf(<<"{{", "ENV", ".", "PORT", ":-", "3000", "}}">>)))]
      [] doc = "envreq" ->
           [ok |-> TRUE, data |->
              (<<"database">> :>
                 Table(<<"password">> :> Leaf(<<"{{", "ENV", ".", "DB_PASSWORD", "}}">>)))]
      [] doc = "arr" ->
           [ok |-> TRUE, data |->
              (<<"server">> :>
                 Table(<<"hosts">> :> Array(<<"[", "{{", "db", ".", "a", "}}", " b]">>)))]
      [] doc = "typed" ->
           [ok |-> TRUE, data |->
              (<<"server">> :>
                 Table(<<"port">> :> Leaf(<<"3000">>)
                       @@ <<"debug">> :> Leaf(<<"yes">>)
                       @@ <<"name">> :> Leaf(<<"web">>)
                       @@ <<"timeout">> :> Leaf(<<"30s">>)
                       @@ <<"ratio">> :> Leaf(<<"0", ".", "5">>)
                       @@ <<"hosts">> :> Leaf(<<"a", ",", " ", "b">>)
                       @@ <<"nums">> :> Leaf(<<"1", ",", " ", "2">>)
                       @@ <<"ports">> :> Leaf(<<"1", ",", ",", "x">>)
                       @@ <<"empty">> :> Leaf(<<>>)
                       @@ <<"flag">> :> Leaf(<<"tRUE">>)
                       @@ <<"off">> :> Leaf(<<"No">>)))]
      [] doc = "broken" -> [ok |-> FALSE, data |-> <<>>]
      [] OTHER -> [ok |-> FALSE, data |-> <<>>]

\* the locations filepath.Walk can meet, in its lexical order
WalkOrder ==
    << <<".", "hidden", "/", "app", ".", "toml">>,
       <<"app", ".", "toml">>,
       <<"conf", "/", "app", ".", "toml">>,
       <<"db", ".", "toml">>,
       <<"my", ".", "app", ".", "toml">>,
       <<"notes", ".", "txt">> >>

Locations == Range(WalkOrder)

\* the walk function of findTOMLFiles: hidden entries are skipped (a hidden
\* directory with all below it), the others are kept when they end in .toml
Discovered(path) ==
    /\ \A el \in Range(Split(path, "/")) : ~HasPrefix(el, ".")
    /\ HasSuffix(ToLower(Base(path)), <<".", "toml">>)

\* findTOMLFiles()
findTOMLFiles(dir) ==
    SelectSeq(WalkOrder, LAMBDA path : dir[path].exists /\ Discovered(path))

\* loadTOMLFile(filename)
loadTOMLFile(dir, filename) == Content(dir[filename].doc)

\* the loop of resolveKey over the parts of the key
RECURSIVE walkKey(_, _)
walkKey(current, parts) ==
    LET part == Head(parts)
    IN  IF Len(parts) = 1
        THEN IF part \in DOMAIN current
             THEN [found |-> TRUE, value |-> Sprint(current[part])]
             ELSE [found |-> FALSE, value |-> <<>>]
        ELSE IF part \in DOMAIN current /\ current[part].t = "map"
             THEN walkKey(current[part].m, Tail(parts))
             ELSE [found |-> FALSE, value |-> <<>>]

\* resolveKey(data, key)
resolveKey(data, k) == walkKey(data, Split(k, "."))

\* extractFilePrefix(filePath)
extractFilePrefix(filePath) ==
    LET filename == Base(filePath) IN TrimSuffix(filename, Ext(filename))

\* the first pass of loadAllTOMLFiles: the files that parse, in walk order
loadedFiles(dir) ==
    With(SelectSeq(findTOMLFiles(dir), LAMBDA f : loadTOMLFile(dir, f).ok),
         LAMBDA ok :
            [i \in 1..Len(ok) |->
                [Path |-> ok[i], Prefix |-> extractFilePrefix(ok[i]),
                 Data |-> loadTOMLFile(dir, ok[i]).data]])

\* namespacedData[prefix] = data, a later file replacing an earlier one of
\* the same prefix
namespaceData(list) ==
    [prefix \in {list[i].Prefix : i \in 1..Len(list)} |->
        LET i == CHOOSE i \in 1..Len(list) :
                    /\ list[i].Prefix = prefix
                    /\ \A j \in (i + 1)..Len(list) : list[j].Prefix # prefix
        IN  Table(list[i].Data)]

\* the map iteration orders one run of loadAllTOMLFiles can take
LoadOrders(dir) == Orders(OpenLeaves(namespaceData(loadedFiles(dir))))

\* a fault: loadAllTOMLFiles() going on with the unresolved data where
\* resolution failed
loadAllTOMLFilesKeepingUnresolved(dir, ord) ==
    With(loadedFiles(dir), LAMBDA list :
        With(resolveVariables(namespaceData(list), ord), LAMBDA r :
            [list |-> [i \in 1..Len(list) |->
                          [Path |-> list[i].Path, Prefix |-> list[i].Prefix,
                           Data |-> list[i].Data,
                           Resolved |-> IF r.err # NoErr THEN list[i].Data
                                        ELSE r.data[list[i].Prefix].m]],
             err |-> NoErr]))

\* loadAllTOMLFiles(): [list, err], each file with its Resolved tree
loadAllTOMLFiles(dir, ord) ==
    With(loadedFiles(dir), LAMBDA list :
        With(resolveVariables(namespaceData(list), ord), LAMBDA r :
            IF r.err # NoErr THEN [list |-> <<>>, err |-> r.err]
            ELSE [list |-> [i \in 1..Len(list) |->
                               [Path |-> list[i].Path, Prefix |-> list[i].Prefix,
                                Data |-> list[i].Data,
                                Resolved |-> r.data[list[i].Prefix].m]],
                  err |-> NoErr]))

\* a fault: the explicit-prefix branch without its test for a prefix that
\* matches no file, every such key going on to the regular search
explicitLookupKnownPrefixOnly(list, k) ==
    With({i \in 1..Len(list) : list[i].Prefix = SplitN2(k, ".")[1]}, LAMBDA hits :
        IF ~Contains(k, ".") \/ hits = {}
        THEN [done |-> FALSE, out |-> Outcome(<<>>, NoErr)]
        ELSE With(list[CHOOSE i \in hits : \A j \in hits : i <= j], LAMBDA file :
             With(resolveKey(file.Resolved, SplitN2(k, ".")[2]), LAMBDA r :
                 IF r.found THEN [done |-> TRUE, out |-> Outcome(r.value, NoErr)]
                 ELSE [done |-> TRUE,
                       out |-> Outcome(<<>>, Err("NotFoundInFile", SplitN2(k, ".")[2],
                                                 <<file.Path>>,
                                                 collectKeys(file.Resolved), <<>>))])))

\* the explicit-prefix branch of findValueInFiles: the outcome it returns,
\* or "fallthrough" when the regular search goes on
explicitLookup(list, k) ==
    LET parts == SplitN2(k, ".")
        potentialFilePrefix == parts[1]
        remainingKey == parts[2]
        hits == {i \in 1..Len(list) : list[i].Prefix = potentialFilePrefix}
    IN  IF ~Contains(k, ".") THEN [done |-> FALSE, out |-> Outcome(<<>>, NoErr)]
        ELSE IF hits # {}
        THEN With(list[CHOOSE i \in hits : \A j \in hits : i <= j], LAMBDA file :
             With(resolveKey(file.Resolved, remainingKey), LAMBDA r :
                 IF r.found THEN [done |-> TRUE, out |-> Outcome(r.value, NoErr)]
                 ELSE [done |-> TRUE,
                       out |-> Outcome(<<>>, Err("NotFoundInFile", remainingKey,
                                                 <<file.Path>>,
                                                 collectKeys(file.Resolved), <<>>))]))
        ELSE IF Contains(remainingKey, ".")
        THEN [done |-> TRUE,
              out |-> Outcome(<<>>, Err("FilePrefixNotFound", potentialFilePrefix,
                                        [i \in 1..Len(list) |-> list[i].Path], {},
                                        [i \in 1..Len(list) |-> list[i].Prefix]))]
        ELSE [done |-> FALSE, out |-> Outcome(<<>>, NoErr)]

\* the smart lookup of findValueInFiles: the key searched in every file
smartLookup(list, k) ==
    With([i \in 1..Len(list) |-> resolveKey(list[i].Resolved, k)], LAMBDA found :
    With(SelectSeq([i \in 1..Len(list) |-> i], LAMBDA i : found[i].found),
         LAMBDA foundIdx :
        IF Len(foundIdx) = 0
        THEN Outcome(<<>>, Err("NotFound", k,
                               [i \in 1..Len(list) |-> list[i].Path],
                               UNION {collectKeys(list[i].Resolved) : i \in 1..Len(list)},
                               <<>>))
        ELSE IF Len(foundIdx) = 1
        THEN Outcome(found[foundIdx[1]].value, NoErr)
        ELSE Outcome(<<>>, Err("Ambiguous", k,
                               [n \in 1..Len(foundIdx) |-> list[foundIdx[n]].Path], {},
                               [n \in 1..Len(foundIdx) |->
                                   list[foundIdx[n]].Prefix \o <<".">> \o k]))))

\* findValueInFiles(key)
findValueInFiles(dir, k, ord) ==
    With(loadAllTOMLFiles(dir, ord), LAMBDA l :
        IF l.err # NoErr THEN Outcome(<<>>, l.err)
        ELSE IF Len(l.list) = 0
        THEN Outcome(<<>>, Err("NoFiles", k, <<>>, {}, <<>>))
        ELSE With(explicitLookup(l.list, k), LAMBDA e :
                 IF e.done THEN e.out ELSE smartLookup(l.list, k)))

----------------------------------------------------------------------------
(* The cache: getValueFromCache under cacheMutex, and the file system      *)
(* around it.                                                              *)

\* the clock's last tick, and how many lookups and file system changes a
\* behaviour makes
MaxTime == 1
MaxCalls == 2
MaxChanges == 2

\* two concurrent callers
Procs == {1, 2}
NoProc == 0

App == <<"app", ".", "toml">>
Db == <<"db", ".", "toml">>

\* the files the environment writes while lookups run, and what it writes
CacheFiles == {App, Db}
CacheDocs(f) == IF f = App THEN {"port1", "port2"} ELSE {"host"}

\* the keys the callers look up while the environment runs
CacheKeys == {<<"server", ".", "port">>, <<"server", ".", "host">>}

EmptyMap == <<>>
NoResult == [out |-> Outcome(<<>>, NoErr), via |-> "none"]
NoLast == [key |-> <<>>, out |-> Outcome(<<>>, NoErr), loads |-> 0, set |-> FALSE]

\* a fault: filesChanged() without its test for files unknown to fileCache
filesChangedKnownOnly ==
    \E file \in Range(findTOMLFiles(fs)) :
        file \in DOMAIN fileCache /\ fs[file].mtime > fileCache[file]

\* filesChanged(): a discovered file is unknown to fileCache or newer than
\* its last-seen time
filesChanged ==
    \E file \in Range(findTOMLFiles(fs)) :
        file \notin DOMAIN fileCache \/ fs[file].mtime > fileCache[file]

\* a fault: the fast path taken when the files changed, the negation lost
FastPathHitInverted(k) == k \in DOMAIN cache /\ filesChanged

\* a fault: no double-check after acquiring the write lock
DoubleCheckSkipped(k) == FALSE

\* the condition of the fast path, read under RLock
FastPathHit(k) == k \in DOMAIN cache /\ ~filesChanged

\* the double-check after acquiring the write lock
DoubleCheckHit(k) == k \in DOMAIN cache /\ ~filesChanged

\* cacheMutex.RLock() returns: no caller holds the write lock
CanRLock == writer = NoProc

\* a fault: a write lock granted while read locks are held
CanLockOverReaders == writer = NoProc

\* cacheMutex.Lock() returns: no caller holds either lock
CanLock == writer = NoProc /\ readers = {}

\* a fault: updateFileTimestamps() recording the clock, not info.ModTime()
stampedTimesFromClock ==
    [f \in DOMAIN fileCache \cup Range(findTOMLFiles(fs)) |->
        IF f \in Range(findTOMLFiles(fs)) THEN now ELSE fileCache[f]]

\* updateFileTimestamps(): the last-seen table after it
stampedTimes ==
    [f \in DOMAIN fileCache \cup Range(findTOMLFiles(fs)) |->
        IF f \in Range(findTOMLFiles(fs)) THEN fs[f].mtime ELSE fileCache[f]]

\* history: what deciding a lookup of k with outcome out does to last
lastAfterHit(k, out) ==
    IF last.set /\ last.key = k THEN last
    ELSE [key |-> k, out |-> out, loads |-> 0, set |-> TRUE]

lastAfterLoad(k, out) ==
    IF ~rebuildClean THEN NoLast
    ELSE [key |-> k, out |-> out, set |-> TRUE,
          loads |-> IF last.set /\ last.key = k THEN last.loads + 1 ELSE 1]

Init ==
    /\ fs = [l \in Locations |-> NoFile]
    /\ now = 0
    /\ cache = EmptyMap
    /\ fileCache = EmptyMap
    /\ readers = {}
    /\ writer = NoProc
    /\ pc = [p \in Procs |-> "idle"]
    /\ key = [p \in Procs |-> <<>>]
    /\ result = [p \in Procs |-> NoResult]
    /\ dirty = {}
    /\ rebuildClean = FALSE
    /\ last = NoLast
    /\ steps = [calls |-> 0, changes |-> 0]

\* a caller enters getValueFromCache(k), for the first time or again
Call(p, k) ==
    /\ pc[p] \in {"idle", "done"}
    /\ steps.calls < MaxCalls
    /\ steps' = [steps EXCEPT !.calls = @ + 1]
    /\ pc' = [pc EXCEPT ![p] = "rlock"]
    /\ key' = [key EXCEPT ![p] = k]
    /\ result' = [result EXCEPT ![p] = NoResult]
    /\ UNCHANGED <<fs, now, cache, fileCache, readers, writer, dirty,
                   rebuildClean, last>>

\* cacheMutex.RLock()
RLock(p) ==
    /\ pc[p] = "rlock"
    /\ CanRLock
    /\ readers' = readers \cup {p}
    /\ pc' = [pc EXCEPT ![p] = "rcheck"]
    /\ UNCHANGED <<steps, fs, now, cache, fileCache, writer, key, result, dirty,
                   rebuildClean, last>>

\* a fault: the fast path leaving the read lock held when it misses
FastCheckKeepingRLock(p) ==
    /\ pc[p] = "rcheck"
    /\ IF FastPathHit(key[p])
       THEN /\ result' = [result EXCEPT ![p] = [out |-> cache[key[p]], via |-> "fast"]]
            /\ pc' = [pc EXCEPT ![p] = "done"]
            /\ last' = lastAfterHit(key[p], cache[key[p]])
            /\ readers' = readers \ {p}
       ELSE /\ pc' = [pc EXCEPT ![p] = "wlock"]
            /\ UNCHANGED <<result, last, readers>>
    /\ UNCHANGED <<steps, fs, now, cache, fileCache, writer, key, dirty, rebuildClean>>

\* the fast path: the check under the read lock, RUnlock, and the return
FastCheck(p) ==
    /\ pc[p] = "rcheck"
    /\ readers' = readers \ {p}
    /\ IF FastPathHit(key[p])
       THEN /\ result' = [result EXCEPT ![p] = [out |-> cache[key[p]], via |-> "fast"]]
            /\ pc' = [pc EXCEPT ![p] = "done"]
            /\ last' = lastAfterHit(key[p], cache[key[p]])
       ELSE /\ pc' = [pc EXCEPT ![p] = "wlock"]
            /\ UNCHANGED <<result, last>>
    /\ UNCHANGED <<steps, fs, now, cache, fileCache, writer, key, dirty, rebuildClean>>

\* cacheMutex.Lock()
Lock(p) ==
    /\ pc[p] = "wlock"
    /\ CanLock
    /\ writer' = p
    /\ pc' = [pc EXCEPT ![p] = "recheck"]
    /\ UNCHANGED <<steps, fs, now, cache, fileCache, readers, key, result, dirty,
                   rebuildClean, last>>

\* the double-check under the write lock; a hit returns through the
\* deferred Unlock
Recheck(p) ==
    /\ pc[p] = "recheck"
    /\ IF DoubleCheckHit(key[p])
       THEN /\ result' = [result EXCEPT ![p] = [out |-> cache[key[p]], via |-> "recheck"]]
            /\ pc' = [pc EXCEPT ![p] = "done"]
            /\ writer' = NoProc
            /\ last' = lastAfterHit(key[p], cache[key[p]])
       ELSE /\ pc' = [pc EXCEPT ![p] = "stamp"]
            /\ UNCHANGED <<result, writer, last>>
    /\ UNCHANGED <<steps, fs, now, cache, fileCache, readers, key, dirty, rebuildClean>>

\* a fault: updateFileTimestamps() keeping the memoized entries
UpdateStampsKeepingCache(p) ==
    /\ pc[p] = "stamp"
    /\ fileCache' = stampedTimes
    /\ pc' = [pc EXCEPT ![p] = "load"]
    /\ dirty' = {}
    /\ rebuildClean' = TRUE
    /\ UNCHANGED <<steps, fs, now, cache, readers, writer, key, result, last>>

\* updateFileTimestamps(): the cache is dropped, the discovered files stamped
UpdateStamps(p) ==
    /\ pc[p] = "stamp"
    /\ cache' = EmptyMap
    /\ fileCache' = stampedTimes
    /\ pc' = [pc EXCEPT ![p] = "load"]
    /\ dirty' = {}
    /\ rebuildClean' = TRUE
    /\ UNCHANGED <<steps, fs, now, readers, writer, key, result, last>>

\* a fault: the modification times recorded again once the contents are read
LoadThenStamp(p) ==
    /\ pc[p] = "load"
    /\ \E ord \in LoadOrders(fs) :
         \E out \in {findValueInFiles(fs, key[p], ord)} :
             /\ cache' = (key[p] :> out) @@ cache
             /\ result' = [result EXCEPT ![p] = [out |-> out, via |-> "rebuild"]]
             /\ last' = lastAfterLoad(key[p], out)
    /\ fileCache' = stampedTimes
    /\ writer' = NoProc
    /\ pc' = [pc EXCEPT ![p] = "done"]
    /\ UNCHANGED <<steps, fs, now, readers, key, dirty, rebuildClean>>

\* findValueInFiles(key), the store of the outcome, the deferred Unlock
Load(p) ==
    /\ pc[p] = "load"
    /\ \E ord \in LoadOrders(fs) :
         \E out \in {findValueInFiles(fs, key[p], ord)} :
             /\ cache' = (key[p] :> out) @@ cache
             /\ result' = [result EXCEPT ![p] = [out |-> out, via |-> "rebuild"]]
             /\ last' = lastAfterLoad(key[p], out)
    /\ writer' = NoProc
    /\ pc' = [pc EXCEPT ![p] = "done"]
    /\ UNCHANGED <<steps, fs, now, fileCache, readers, key, dirty, rebuildClean>>

\* clearCache(), whole under the write lock
ClearCache ==
    /\ CanLock
    /\ cache # EmptyMap \/ fileCache # EmptyMap
    /\ cache' = EmptyMap
    /\ fileCache' = EmptyMap
    /\ last' = NoLast
    /\ UNCHANGED <<steps, fs, now, readers, writer, pc, key, result, dirty, rebuildClean>>

\* os.WriteFile(f, d): the file is created or rewritten at the clock's time
WriteFile(f, d) ==
    /\ steps.changes < MaxChanges
    /\ steps' = [steps EXCEPT !.changes = @ + 1]
    /\ fs' = [fs EXCEPT ![f] = File(d, now)]
    /\ dirty' = IF fs[f].exists /\ now > fs[f].mtime THEN dirty \cup {f} ELSE dirty
    /\ rebuildClean' = FALSE
    /\ last' = NoLast
    /\ UNCHANGED <<now, cache, fileCache, readers, writer, pc, key, result>>

\* os.Remove(f)
RemoveFile(f) ==
    /\ fs[f].exists
    /\ steps.changes < MaxChanges
    /\ steps' = [steps EXCEPT !.changes = @ + 1]
    /\ fs' = [fs EXCEPT ![f] = NoFile]
    /\ dirty' = dirty \ {f}
    /\ rebuildClean' = FALSE
    /\ last' = NoLast
    /\ UNCHANGED <<now, cache, fileCache, readers, writer, pc, key, result>>

\* time passes
Tick ==
    /\ now < MaxTime
    /\ now' = now + 1
    /\ UNCHANGED <<steps, fs, cache, fileCache, readers, writer, pc, key, result, dirty,
                   rebuildClean, last>>

Next ==
    \/ \E p \in Procs : \E k \in CacheKeys : Call(p, k)
    \/ \E p \in Procs : RLock(p)
    \/ \E p \in Procs : FastCheck(p)
    \/ \E p \in Procs : Lock(p)
    \/ \E p \in Procs : Recheck(p)
    \/ \E p \in Procs : UpdateStamps(p)
    \/ \E p \in Procs : Load(p)
    \/ ClearCache
    \/ \E f \in CacheFiles : \E d \in CacheDocs(f) : WriteFile(f, d)
    \/ \E f \in CacheFiles : RemoveFile(f)
    \/ Tick

Spec == Init /\ [][Next]_vars

\* the step Load(p) by what it does to the caller and the lock: the caller
\* returns and the write lock is released, whatever outcome is stored
Returns(p) ==
    /\ pc[p] = "load"
    /\ pc' = [pc EXCEPT ![p] = "done"]
    /\ writer' = NoProc
    /\ cache' = cache \/ cache' # cache
    /\ result' = result \/ result' # result
    /\ last' = last \/ last' # last
    /\ UNCHANGED <<steps, fs, now, fileCache, readers, key, dirty, rebuildClean>>

\* fair scheduling: a caller that waits for no lock takes its next step, and
\* a lock that stays free is granted to a caller that waits for it
FairSpec ==
    Spec /\ \A p \in Procs :
                /\ WF_vars(RLock(p)) /\ WF_vars(FastCheck(p)) /\ WF_vars(Lock(p))
                /\ WF_vars(Recheck(p)) /\ WF_vars(UpdateStamps(p)) /\ WF_vars(Returns(p))

----------------------------------------------------------------------------
(* Lookups over assembled stores: findValueInFiles applied to every store  *)
(* the candidate documents below make, for every key of LookupKeys.        *)

\* what each location can hold when a store is assembled
Candidates(path) ==
    CASE path = <<".", "hidden", "/", "app", ".", "toml">> -> {"none", "port1"}
      [] path = <<"app", ".", "toml">> -> {"none", "port1", "deep", "refs"}
      [] path = <<"conf", "/", "app", ".", "toml">> -> {"none", "host", "port2"}
      [] path = <<"db", ".", "toml">> ->
           {"none", "port2", "flat", "broken", "cycle", "deep2"}
      [] path = <<"my", ".", "app", ".", "toml">> -> {"none", "port1", "flat"}
      [] OTHER -> {"none", "flat"}

\* the keys looked up
LookupKeys ==
    { <<"a">>, <<"b">>, <<"c">>, <<"server">>,
      <<"server", ".", "port">>, <<"server", ".", "host">>, <<"server", ".", "url">>,
      <<"server", ".", "tls">>, <<"server", ".", "tls", ".", "port">>,
      <<"app", ".", "server", ".", "port">>, <<"app", ".", "server", ".", "host">>,
      <<"app", ".", "server", ".", "url">>, <<"app", ".", "a">>,
      <<"app", ".", "server", ".", "tls", ".", "port">>,
      <<"db", ".", "server", ".", "port">>, <<"db", ".", "a">>, <<"db", ".", "c">>,
      <<"db", ".", "server", ".", "tls", ".", "port">>,
      <<"my", ".", "app", ".", "server", ".", "port">>, <<"my", ".", "app", ".", "a">>,
      <<"nonexistent", ".", "server", ".", "port">>, <<"nonexistent", ".", "key">> }

InitLookup ==
    /\ \E choice \in [Locations -> {"none", "port1", "port2", "host", "deep", "deep2",
                                    "flat", "refs", "cycle", "broken"}] :
         /\ \A l \in Locations : choice[l] \in Candidates(l)
         /\ fs = [l \in Locations |->
                    IF choice[l] = "none" THEN NoFile ELSE File(choice[l], 0)]
    /\ now = 0
    /\ cache = EmptyMap
    /\ fileCache = EmptyMap
    /\ readers = {}
    /\ writer = NoProc
    /\ pc = [p \in Procs |-> "idle"]
    /\ key = [p \in Procs |-> <<>>]
    /\ result = [p \in Procs |-> NoResult]
    /\ dirty = {}
    /\ rebuildClean = FALSE
    /\ last = NoLast
    /\ steps = [calls |-> 0, changes |-> 0]

\* findValueInFiles(k) on the store, by a caller that has made no lookup yet
FindValue(p, k) ==
    /\ pc[p] = "idle"
    /\ \E ord \in LoadOrders(fs) :
         result' = [result EXCEPT ![p] =
                       [out |-> findValueInFiles(fs, k, ord), via |-> "lookup"]]
    /\ key' = [key EXCEPT ![p] = k]
    /\ pc' = [pc EXCEPT ![p] = "done"]
    /\ UNCHANGED <<fs, now, cache, fileCache, readers, writer, dirty, rebuildClean,
                   last, steps>>

NextLookup == \E k \in LookupKeys : FindValue(1, k)

SpecLookup == InitLookup /\ [][NextLookup]_vars

----------------------------------------------------------------------------
(* Lookups over stores with placeholders: findValueInFiles applied to the  *)
(* stores the documents below make, for every key of ResolveKeys.          *)

\* what app.toml and db.toml can hold when a store with placeholders is
\* assembled; the other locations hold nothing
ResolveCandidates(path) ==
    CASE path = <<"app", ".", "toml">> ->
           {"none", "ucycle", "qcycle", "undef", "uref", "xref", "qchain", "chain9",
            "chain10", "env", "envreq", "arr", "refs", "spur", "open"}
      [] path = <<"db", ".", "toml">> ->
           {"none", "cycle", "undef2", "dbhost", "port2", "flat"}
      [] OTHER -> {}

\* the keys looked up
ResolveKeys ==
    { <<"a">>, <<"other">>, <<"k01">>, <<"k02">>,
      <<"circular", ".", "a">>, <<"test", ".", "value">>, <<"test", ".", "existing">>,
      <<"connection", ".", "primary">>, <<"database", ".", "host">>,
      <<"database", ".", "password">>, <<"cache", ".", "url">>,
      <<"server", ".", "port">>, <<"server", ".", "hosts">>, <<"server", ".", "url">>,
      <<"app", ".", "a">>, <<"app", ".", "b">>, <<"app", ".", "k01">>,
      <<"app", ".", "k02">>, <<"app", ".", "k11">>,
      <<"app", ".", "circular", ".", "a">>, <<"app", ".", "test", ".", "value">>,
      <<"app", ".", "test", ".", "existing">>, <<"app", ".", "connection", ".", "primary">>,
      <<"app", ".", "cache", ".", "url">>, <<"app", ".", "server", ".", "port">>,
      <<"app", ".", "server", ".", "hosts">>, <<"app", ".", "server", ".", "url">>,
      <<"app", ".", "database", ".", "password">>,
      <<"db", ".", "a">>, <<"db", ".", "c">>, <<"db", ".", "other">>,
      <<"db", ".", "database", ".", "host">>, <<"db", ".", "server", ".", "port">> }

InitResolve ==
    /\ \E app \in ResolveCandidates(<<"app", ".", "toml">>),
          db \in ResolveCandidates(<<"db", ".", "toml">>) :
         fs = [l \in Locations |->
                 With(IF l = <<"app", ".", "toml">> THEN app
                      ELSE IF l = <<"db", ".", "toml">> THEN db ELSE "none",
                      LAMBDA doc : IF doc = "none" THEN NoFile ELSE File(doc, 0))]
    /\ now = 0
    /\ cache = EmptyMap
    /\ fileCache = EmptyMap
    /\ readers = {}
    /\ writer = NoProc
    /\ pc = [p \in Procs |-> "idle"]
    /\ key = [p \in Procs |-> <<>>]
    /\ result = [p \in Procs |-> NoResult]
    /\ dirty = {}
    /\ rebuildClean = FALSE
    /\ last = NoLast
    /\ steps = [calls |-> 0, changes |-> 0]

NextResolve == \E k \in ResolveKeys : FindValue(1, k)

SpecResolve == InitResolve /\ [][NextResolve]_vars

----------------------------------------------------------------------------
(* The typed accessors.  Each is applied to what getValue(key) returned:   *)
(* got = [value, err].  A call ends by returning a value or by a panic.    *)

Returned(v) == [panic |-> FALSE, value |-> v]
Panicked == [panic |-> TRUE, value |-> <<>>]

\* the numerals among the atoms of the documents, with their values
IntText ==
    ("0" :> 0) @@ ("1" :> 1) @@ ("2" :> 2) @@ ("5" :> 5) @@ ("443" :> 443)
    @@ ("3000" :> 3000) @@ ("4000" :> 4000) @@ ("5000" :> 5000) @@ ("8443" :> 8443)

\* the durations among the atoms of the documents, in seconds
DurationText == ("30s" :> 30) @@ ("5m" :> 300) @@ ("0" :> 0)

\* strconv.Atoi(s): [ok, n]
Atoi(str) ==
    IF Len(str) = 1 /\ str[1] \in DOMAIN IntText
    THEN [ok |-> TRUE, n |-> IntText[str[1]]]
    ELSE [ok |-> FALSE, n |-> 0]

\* strconv.ParseFloat(s, 64): [ok, n], n in tenths
ParseFloat(str) ==
    IF Len(str) = 1 /\ str[1] \in DOMAIN IntText
    THEN [ok |-> TRUE, n |-> 10 * IntText[str[1]]]
    ELSE IF /\ Len(str) = 3 /\ str[2] = "."
            /\ str[1] \in DOMAIN IntText /\ str[3] \in DOMAIN IntText
            /\ IntText[str[3]] < 10
    THEN [ok |-> TRUE, n |-> 10 * IntText[str[1]] + IntText[str[3]]]
    ELSE [ok |-> FALSE, n |-> 0]

\* time.ParseDuration(s): [ok, n], n in seconds
ParseDuration(str) ==
    IF Len(str) = 1 /\ str[1] \in DOMAIN DurationText
    THEN [ok |-> TRUE, n |-> DurationText[str[1]]]
    ELSE [ok |-> FALSE, n |-> 0]

\* strings.TrimSpace(s)
RECURSIVE TrimSpace(_)
TrimSpace(str) ==
    IF str = <<>> THEN <<>>
    ELSE IF Head(str) = " " THEN TrimSpace(Tail(str))
    ELSE IF str[Len(str)] = " " THEN TrimSpace(SubSeq(str, 1, Len(str) - 1))
    ELSE str

\* the parts of a comma-separated value, each trimmed
TrimmedParts(value) ==
    With(Split(value, ","), LAMBDA parts : [i \in 1..Len(parts) |-> TrimSpace(parts[i])])

\* Get(key)
Get(got) == IF got.err # NoErr THEN Panicked ELSE Returned(got.value)

\* GetBool(key)
GetBool(got) ==
    IF Get(got).panic THEN Panicked
    ELSE IF Get(got).value \in {<<"true">>, <<"True">>, <<"TRUE">>, <<"yes">>, <<"Yes">>,
                                <<"YES">>, <<"1">>}
    THEN Returned(TRUE)
    ELSE IF Get(got).value \in {<<"false">>, <<"False">>, <<"FALSE">>, <<"no">>, <<"No">>,
                                <<"NO">>, <<"0">>}
    THEN Returned(FALSE)
    ELSE Panicked

\* Exists(key)
Exists(got) == Returned(got.err = NoErr)

\* a fault: GetOr panicking, as Get does, where the lookup failed
GetOrPanicking(got, defaultValue) ==
    IF got.err # NoErr THEN Panicked ELSE Returned(got.value)

\* GetOr(key, defaultValue)
GetOr(got, defaultValue) ==
    IF got.err # NoErr THEN Returned(defaultValue) ELSE Returned(got.value)

\* GetIntOr(key, defaultValue)
GetIntOr(got, defaultValue) ==
    IF got.err # NoErr THEN Returned(defaultValue)
    ELSE IF ~Atoi(got.value).ok THEN Returned(defaultValue)
    ELSE Returned(Atoi(got.value).n)

\* GetBoolOr(key, defaultValue)
GetBoolOr(got, defaultValue) ==
    IF got.err # NoErr THEN Returned(defaultValue)
    ELSE IF got.value \in {<<"true">>, <<"True">>, <<"TRUE">>, <<"yes">>, <<"Yes">>,
                           <<"YES">>, <<"1">>}
    THEN Returned(TRUE)
    ELSE IF got.value \in {<<"false">>, <<"False">>, <<"FALSE">>, <<"no">>, <<"No">>,
                           <<"NO">>, <<"0">>}
    THEN Returned(FALSE)
    ELSE Returned(defaultValue)

\* GetFloatOr(key, defaultValue)
GetFloatOr(got, defaultValue) ==
    IF got.err # NoErr THEN Returned(defaultValue)
    ELSE IF ~ParseFloat(got.value).ok THEN Returned(defaultValue)
    ELSE Returned(ParseFloat(got.value).n)

\* GetDurationOr(key, defaultValue)
GetDurationOr(got, defaultValue) ==
    IF got.err # NoErr THEN Returned(defaultValue)
    ELSE IF ~ParseDuration(got.value).ok THEN Returned(defaultValue)
    ELSE Returned(ParseDuration(got.value).n)

\* GetStringSliceOr(key, defaultValue)
GetStringSliceOr(got, defaultValue) ==
    IF got.err # NoErr THEN Returned(defaultValue)
    ELSE IF got.value = <<>> THEN Returned(<<>>)
    ELSE Returned(TrimmedParts(got.value))

\* GetIntSliceOr(key, defaultValue)
GetIntSliceOr(got, defaultValue) ==
    IF got.err # NoErr THEN Returned(defaultValue)
    ELSE IF got.value = <<>> THEN Returned(<<>>)
    ELSE With(TrimmedParts(got.value), LAMBDA parts :
            IF \E i \in 1..Len(parts) : parts[i] # <<>> /\ ~Atoi(parts[i]).ok
            THEN Returned(defaultValue)
            ELSE Returned([i \in 1..Len(parts) |->
                             IF parts[i] = <<>> THEN 0 ELSE Atoi(parts[i]).n]))

\* what app.toml and db.toml can hold when the accessors are called; the
\* other locations hold nothing
AccessCandidates(path) ==
    CASE path = <<"app", ".", "toml">> -> {"none", "typed"}
      [] path = <<"db", ".", "toml">> -> {"none", "port2", "cycle"}
      [] OTHER -> {}

\* the keys the accessors are called with: Get by one caller, the
\* accessors with a default by another
AccessKeys ==
    { <<"server", ".", "port">>, <<"server", ".", "debug">>, <<"server", ".", "name">>,
      <<"server", ".", "timeout">>, <<"server", ".", "ratio">>,
      <<"server", ".", "hosts">>, <<"server", ".", "nums">>, <<"server", ".", "ports">>,
      <<"server", ".", "empty">>, <<"server", ".", "missing">>,
      <<"server", ".", "flag">>, <<"server", ".", "off">>,
      <<"app", ".", "server", ".", "port">> }

\* the keys Exists is called with
ExistsKeys ==
    { <<"server", ".", "port">>, <<"server", ".", "missing">>,
      <<"app", ".", "server", ".", "port">> }

InitAccess ==
    /\ \E app \in AccessCandidates(<<"app", ".", "toml">>),
          db \in AccessCandidates(<<"db", ".", "toml">>) :
         fs = [l \in Locations |->
                 With(IF l = <<"app", ".", "toml">> THEN app
                      ELSE IF l = <<"db", ".", "toml">> THEN db ELSE "none",
                      LAMBDA doc : IF doc = "none" THEN NoFile ELSE File(doc, 0))]
    /\ now = 0
    /\ cache = EmptyMap
    /\ fileCache = EmptyMap
    /\ readers = {}
    /\ writer = NoProc
    /\ pc = [p \in Procs |-> "idle"]
    /\ key = [p \in Procs |-> <<>>]
    /\ result = [p \in Procs |-> NoResult]
    /\ dirty = {}
    /\ rebuildClean = FALSE
    /\ last = NoLast
    /\ steps = [calls |-> 0, changes |-> 0]

\* the call of one accessor by a caller that has made no call yet: getValue
\* on the empty cache is findValueInFiles; ret is what the accessor makes of
\* its outcome
Accessed(p, k, name, got, defaultValue, ret) ==
    /\ pc[p] = "idle"
    /\ result' = [result EXCEPT ![p] =
                     [out |-> got, via |-> name, def |-> defaultValue, ret |-> ret]]
    /\ key' = [key EXCEPT ![p] = k]
    /\ pc' = [pc EXCEPT ![p] = "done"]
    /\ UNCHANGED <<fs, now, cache, fileCache, readers, writer, dirty, rebuildClean,
                   last, steps>>

CallGet(p, k) ==
    /\ pc[p] = "idle"
    /\ \E ord \in LoadOrders(fs) : \E got \in {findValueInFiles(fs, k, ord)} :
         Accessed(p, k, "Get", got, <<>>, Get(got))

CallGetBool(p, k) ==
    /\ pc[p] = "idle"
    /\ \E ord \in LoadOrders(fs) : \E got \in {findValueInFiles(fs, k, ord)} :
         Accessed(p, k, "GetBool", got, <<>>, GetBool(got))

CallExists(p, k) ==
    /\ pc[p] = "idle"
    /\ \E ord \in LoadOrders(fs) : \E got \in {findValueInFiles(fs, k, ord)} :
         Accessed(p, k, "Exists", got, <<>>, Exists(got))

CallGetOr(p, k, d) ==
    /\ pc[p] = "idle"
    /\ \E ord \in LoadOrders(fs) : \E got \in {findValueInFiles(fs, k, ord)} :
         Accessed(p, k, "GetOr", got, d, GetOr(got, d))

CallGetIntOr(p, k, d) ==
    /\ pc[p] = "idle"
    /\ \E ord \in LoadOrders(fs) : \E got \in {findValueInFiles(fs, k, ord)} :
         Accessed(p, k, "GetIntOr", got, d, GetIntOr(got, d))

CallGetBoolOr(p, k, d) ==
    /\ pc[p] = "idle"
    /\ \E ord \in LoadOrders(fs) : \E got \in {findValueInFiles(fs, k, ord)} :
         Accessed(p, k, "GetBoolOr", got, d, GetBoolOr(got, d))

CallGetFloatOr(p, k, d) ==
    /\ pc[p] = "idle"
    /\ \E ord \in LoadOrders(fs) : \E got \in {findValueInFiles(fs, k, ord)} :
         Accessed(p, k, "GetFloatOr", got, d, GetFloatOr(got, d))

CallGetDurationOr(p, k, d) ==
    /\ pc[p] = "idle"
    /\ \E ord \in LoadOrders(fs) : \E got \in {findValueInFiles(fs, k, ord)} :
         Accessed(p, k, "GetDurationOr", got, d, GetDurationOr(got, d))

CallGetStringSliceOr(p, k, d) ==
    /\ pc[p] = "idle"
    /\ \E ord \in LoadOrders(fs) : \E got \in {findValueInFiles(fs, k, ord)} :
         Accessed(p, k, "GetStringSliceOr", got, d, GetStringSliceOr(got, d))

CallGetIntSliceOr(p, k, d) ==
    /\ pc[p] = "idle"
    /\ \E ord \in LoadOrders(fs) : \E got \in {findValueInFiles(fs, k, ord)} :
         Accessed(p, k, "GetIntSliceOr", got, d, GetIntSliceOr(got, d))

NextAccess ==
    \/ \E k \in ExistsKeys : CallExists(2, k)
    \/ \E k \in AccessKeys :
        \/ CallGet(2, k)
        \/ CallGetBool(1, k)
        \/ CallGetOr(1, k, <<"default">>)
        \/ CallGetIntOr(1, k, 8080)
        \/ \E d \in BOOLEAN : CallGetBoolOr(1, k, d)
        \/ CallGetFloatOr(1, k, 15)
        \/ CallGetDurationOr(1, k, 10)
        \/ CallGetStringSliceOr(1, k, << <<"x">> >>)
        \/ CallGetIntSliceOr(1, k, <<7>>)

SpecAccess == InitAccess /\ [][NextAccess]_vars

----------------------------------------------------------------------------
(* Properties of the cache, under Spec *)

\* caller p decides its lookup in this step: the fast path or the double-check
Decides(p) == pc[p] \in {"rcheck", "recheck"} /\ pc'[p] # pc[p]

\* caller p returns a memoized outcome in this step
Hits(p) == pc[p] \in {"rcheck", "recheck"} /\ pc'[p] = "done"

\* what a lookup of k that reads the documents now returns, whatever the order
Fresh(k) == {findValueInFiles(fs, k, ord) : ord \in LoadOrders(fs)}

\* C1: once a document has been rewritten with a later modification time than
\* it had, no lookup returns a memoized outcome until the documents have been
\* stamped and read again: the lookup after the rewrite rebuilds, so it
\* returns the new value and never the memoized one.
C1_NoStaleHitAfterRewrite ==
    [][\A p \in Procs : Hits(p) => dirty = {}]_vars

\* C1, its case: a lookup of server.port finds 3000 memoized, the document
\* rewritten to 4000 at a later time, and has been sent on to rebuild
C1_Witness ==
    \E p \in Procs :
        /\ pc[p] = "stamp"
        /\ dirty # {}
        /\ key[p] \in DOMAIN cache
        /\ cache[key[p]] = Outcome(<<"3000">>, NoErr)
        /\ Fresh(key[p]) = {Outcome(<<"4000">>, NoErr)}

\* C2: while a caller is between its double-check and its deferred Unlock
\* (double-check, stamp, load and store), no other caller is in that section
\* or at the check under the read lock, and no read lock is held.
C2_RebuildIsExclusive ==
    \A p \in Procs :
        pc[p] \in {"recheck", "stamp", "load"} =>
            /\ writer = p
            /\ readers = {}
            /\ \A q \in Procs \ {p} : pc[q] \notin {"rcheck", "recheck", "stamp", "load"}

\* C2, its case: one caller is loading while another waits for the write lock
C2_Witness ==
    \E p, q \in Procs : p # q /\ pc[p] = "load" /\ pc[q] = "wlock"

\* C3: in a run of lookups of one key with no document change and no
\* clearCache, the documents are loaded at most once.
C3_LoadedOnce == last.set => last.loads <= 1

\* C3, its case: two callers looked up the same key at once; one rebuilt, the
\* other found the entry in its double-check
C3_Witness ==
    \E p, q \in Procs :
        /\ p # q
        /\ pc[p] = "done" /\ pc[q] = "done"
        /\ key[p] = key[q]
        /\ result[p].via = "rebuild"
        /\ result[q].via = "recheck"
        /\ result[q].out = result[p].out
        /\ last.set /\ last.loads = 1

\* C4: a lookup of the key of the previous lookup, decided with no document
\* change and no clearCache since that lookup, returns that lookup's outcome
\* from the cache, by the fast path or the double-check, and loads nothing.
C4_RepeatIsMemoized ==
    [][\A p \in Procs :
          (Decides(p) /\ last.set /\ last.key = key[p]) =>
              /\ pc'[p] = "done"
              /\ result'[p].out = last.out
              /\ UNCHANGED <<cache, fileCache>>]_vars

\* C4, its cases: a repeated lookup answered by the fast path with a value,
\* and one answered with the memoized error
C4_Witness ==
    \E p \in Procs :
        /\ pc[p] = "done"
        /\ result[p].via = "fast"
        /\ last.set /\ last.key = key[p] /\ last.loads = 1
        /\ result[p].out = last.out
        /\ result[p].out.err = NoErr

\* C5 as stated: after a lookup of one key, with no document change and no
\* clearCache since, a lookup of another key that reaches its check under the
\* read lock is answered there, and is not sent on to take the write lock
\* and rebuild.
C5_SecondKeyReusesStore ==
    [][\A p \in Procs :
          (pc[p] = "rcheck" /\ pc'[p] # pc[p] /\ last.set /\ last.key # key[p])
              => pc'[p] = "done"]_vars

\* C6 as stated: no memoized value is returned while a document recorded in
\* the last-seen table is not discoverable.
C6_DeletionInvalidates ==
    [][\A p \in Procs :
          (Hits(p) /\ cache[key[p]].err = NoErr)
              => DOMAIN fileCache \subseteq Range(findTOMLFiles(fs))]_vars

\* C7: no memoized outcome is returned while a discoverable document has no
\* entry in the last-seen table, and the rebuild such a lookup goes on to
\* drops every memoized entry before it loads.
C7_NewDocumentInvalidates ==
    [][/\ \A p \in Procs :
             Hits(p) => Range(findTOMLFiles(fs)) \subseteq DOMAIN fileCache
       /\ \A p \in Procs :
             (pc[p] = "stamp" /\ pc'[p] = "load") => cache' = EmptyMap]_vars

\* C7, its case: a lookup finds a not-found error memoized for its key and a
\* new document that defines the key, and has been sent on to rebuild
C7_Witness ==
    \E p \in Procs :
        /\ pc[p] = "stamp"
        /\ key[p] \in DOMAIN cache
        /\ cache[key[p]].err.kind = "NotFound"
        /\ \E f \in Range(findTOMLFiles(fs)) : f \notin DOMAIN fileCache
        /\ Fresh(key[p]) = {Outcome(<<"localhost">>, NoErr)}

----------------------------------------------------------------------------
(* Properties of the lookup, under SpecLookup *)

\* caller p has looked its key up in a store that loaded and resolved
LookedUp(p) ==
    /\ pc[p] = "done"
    /\ result[p].via = "lookup"
    /\ result[p].out.err.kind \notin
           {"NoFiles", "UndefinedVariable", "CircularDependency", "MaxPassesExceeded"}

\* the loaded documents whose own content has a value at path P
Holders(P) ==
    {i \in 1..Len(loadedFiles(fs)) : resolveKey(loadedFiles(fs)[i].Data, P).found}

\* the loaded documents whose own content has a leaf at path P
LeafHolders(P) ==
    {i \in 1..Len(loadedFiles(fs)) :
        \E path \in LeafPaths(loadedFiles(fs)[i].Data) : JoinDots(path) = P}

\* the first dot-segment of P is the namespace of no loaded document
Unqualified(P) ==
    \A i \in 1..Len(loadedFiles(fs)) :
        loadedFiles(fs)[i].Prefix # SplitN2(P, ".")[1]

\* what a lookup is to return for a leaf: its text; for a leaf with
\* placeholders the text is not compared
ReturnsLeaf(out, leaf) ==
    /\ out.err = NoErr
    /\ ~Contains(leaf.v, "{{") => out.value = leaf.v

\* C8 as stated: an unqualified lookup of a path that two or more loaded
\* documents have a value at fails as ambiguous, names exactly those
\* documents and suggests <namespace>.P for each.
C8_AmbiguousWhenSeveralHold ==
    \A p \in Procs :
        (LookedUp(p) /\ Unqualified(key[p]) /\ Cardinality(Holders(key[p])) >= 2) =>
            /\ result[p].out.err.kind = "Ambiguous"
            /\ Range(result[p].out.err.files) =
                  {loadedFiles(fs)[i].Path : i \in Holders(key[p])}
            /\ Range(result[p].out.err.suggest) =
                  {loadedFiles(fs)[i].Prefix \o <<".">> \o key[p] : i \in Holders(key[p])}

\* C9 as stated: for a loaded document of namespace N with a leaf at path P,
\* the lookup of N.P succeeds and returns that document's own value.
C9_QualifiedReturnsOwnValue ==
    \A p \in Procs :
        LookedUp(p) =>
            \A i \in 1..Len(loadedFiles(fs)) :
                \A path \in LeafPaths(loadedFiles(fs)[i].Data) :
                    key[p] = loadedFiles(fs)[i].Prefix \o <<".">> \o JoinDots(path)
                        => ReturnsLeaf(result[p].out,
                                       GetAt(loadedFiles(fs)[i].Data, path))

\* C10 as stated: an unqualified lookup of a path that exactly one loaded
\* document has a leaf at returns that leaf's value, at any depth.
C10_UniqueUnqualifiedReturnsLeaf ==
    \A p \in Procs :
        (LookedUp(p) /\ Unqualified(key[p]) /\ Cardinality(LeafHolders(key[p])) = 1) =>
            \A i \in LeafHolders(key[p]) :
                \A path \in LeafPaths(loadedFiles(fs)[i].Data) :
                    JoinDots(path) = key[p]
                        => ReturnsLeaf(result[p].out,
                                       GetAt(loadedFiles(fs)[i].Data, path))

\* the remainder of key P after its first dot-segment
Remainder(P) == SplitN2(P, ".")[2]

\* C11 as stated: when the first segment of the key is the namespace of a
\* loaded document and the remainder is absent from that document's content,
\* the lookup fails as not found in that document, names that document and
\* lists that document's keys.
C11_MissingInNamespaceFails ==
    \A p \in Procs :
        (LookedUp(p) /\ Contains(key[p], ".")) =>
            \A i \in 1..Len(loadedFiles(fs)) :
                (/\ loadedFiles(fs)[i].Prefix = SplitN2(key[p], ".")[1]
                 /\ ~resolveKey(loadedFiles(fs)[i].Data, Remainder(key[p])).found)
                    => /\ result[p].out.err.kind = "NotFoundInFile"
                       /\ result[p].out.err.files = <<loadedFiles(fs)[i].Path>>
                       /\ result[p].out.err.avail = collectKeys(loadedFiles(fs)[i].Data)

\* the resolution errors a load of the store can end in now
LoadErrors == {loadAllTOMLFiles(fs, ord).err : ord \in LoadOrders(fs)} \ {NoErr}

\* a key of three or more dot-segments whose first is no namespace
LongUnqualified(P) == Len(Split(P, ".")) >= 3 /\ Unqualified(P)

\* the file prefix error of findValueInFiles for key P over the loaded files
PrefixError(P) ==
    Err("FilePrefixNotFound", SplitN2(P, ".")[1],
        [i \in 1..Len(loadedFiles(fs)) |-> loadedFiles(fs)[i].Path], {},
        [i \in 1..Len(loadedFiles(fs)) |-> loadedFiles(fs)[i].Prefix])

\* C12 as stated: every lookup of a key of three or more segments whose first
\* segment is no loaded document's namespace fails with the file prefix error
\* that lists the loaded documents' prefixes.
C12_LongKeyFailsOnPrefix ==
    \A p \in Procs :
        (pc[p] = "done" /\ result[p].via = "lookup" /\ LongUnqualified(key[p]))
            => result[p].out = Outcome(<<>>, PrefixError(key[p]))

\* C12, amended: such a lookup fails with the resolution error when the store
\* does not resolve, with the no-files error when no document loads, and in
\* every other store with the file prefix error that names the first segment
\* and lists every loaded document's path and prefix.
C12_LongKeyFailsOnPrefixWhenLoaded ==
    \A p \in Procs :
        (pc[p] = "done" /\ result[p].via = "lookup" /\ LongUnqualified(key[p])) =>
            /\ result[p].out.value = <<>>
            /\ IF result[p].out.err \in LoadErrors THEN TRUE
               ELSE IF Len(loadedFiles(fs)) = 0
               THEN result[p].out.err.kind = "NoFiles"
               ELSE result[p].out.err = PrefixError(key[p])

\* C12, its case: a store of two or more documents, none named nonexistent,
\* one of them holding server.port, and the lookup of nonexistent.server.port
\* failed on the prefix
C12_Witness ==
    \E p \in Procs :
        /\ pc[p] = "done" /\ result[p].via = "lookup"
        /\ key[p] = <<"nonexistent", ".", "server", ".", "port">>
        /\ Len(loadedFiles(fs)) >= 2
        /\ Holders(<<"server", ".", "port">>) # {}
        /\ result[p].out = Outcome(<<>>, PrefixError(key[p]))

\* the stores a load of the documents can assemble now: the lists of loaded
\* files with their resolved trees, one for each order that resolves
AssembledStores ==
    {loadAllTOMLFiles(fs, ord).list :
        ord \in {o \in LoadOrders(fs) : loadAllTOMLFiles(fs, o).err = NoErr}}

\* C13 as stated: in every assembled store the loaded documents have pairwise
\* distinct namespaces, and each document's resolved tree has the keys of its
\* own content.
C13_NamespacesAreUnique ==
    \A list \in AssembledStores :
        /\ \A i, j \in 1..Len(list) : i # j => list[i].Prefix # list[j].Prefix
        /\ \A i \in 1..Len(list) :
              collectKeys(list[i].Resolved) = collectKeys(list[i].Data)

----------------------------------------------------------------------------
(* Properties of the resolver, under SpecResolve *)

\* caller p has made its lookup
Looked(p) == pc[p] = "done" /\ result[p].via = "lookup"

\* the store the loaded documents make, before resolution
Store == namespaceData(loadedFiles(fs))

\* the paths the placeholders of the string leaf at path q of store st name
Targets(st, q) ==
    With(GetAt(st, q), LAMBDA leaf :
        IF leaf.t # "str" THEN {}
        ELSE With(FindAll(leaf.v), LAMBDA ms : {ms[i].path : i \in 1..Len(ms)}))

\* the pairs <<q, r>> of leaves of st where q references r: by its
\* qualified name, or by its path inside its document
RefEdges(st) ==
    With(LeafPaths(st), LAMBDA leaves :
        UNION {With(Targets(st, q), LAMBDA ts :
                  {<<q, r>> : r \in {r \in leaves :
                                        JoinDots(r) \in ts \/ JoinDots(Tail(r)) \in ts}})
               : q \in leaves})

\* the leaves reachable from the leaves of S along the edges of E
RECURSIVE RefReach(_, _)
RefReach(E, S) ==
    With(S \cup {e[2] : e \in {e \in E : e[1] \in S}}, LAMBDA next :
        IF next = S THEN S ELSE RefReach(E, next))

\* some leaf of the store reaches itself along references
Cyclic == With(RefEdges(Store), LAMBDA E : \E e \in E : e[1] \in RefReach(E, {e[2]}))

\* C14 as stated: when the references of the store form a cycle (a leaf that
\* references itself included), every lookup ends, returns no value and
\* fails with the circular-dependency error.
C14_CycleFailsAsCircular ==
    \A p \in Procs :
        (Looked(p) /\ Cyclic) =>
            /\ result[p].out.value = <<>>
            /\ result[p].out.err.kind = "CircularDependency"

\* every placeholder of the store names a leaf of the store by its
\* qualified name
QualifiedTargets ==
    With(Store, LAMBDA st :
        With({JoinDots(r) : r \in LeafPaths(st)}, LAMBDA names :
            \A q \in LeafPaths(st) : Targets(st, q) \subseteq names))

\* the leaf of store st with qualified name t
LeafNamed(st, t) == CHOOSE r \in LeafPaths(st) : JoinDots(r) = t

\* the text of the leaf at path q of store st with every placeholder
\* replaced by the expanded text of the leaf it names (defined when no leaf
\* reaches itself)
RECURSIVE Expand(_, _)
RECURSIVE ExpandInto(_, _, _)
ExpandInto(st, text, matches) ==
    IF matches = <<>> THEN text
    ELSE ExpandInto(st, ReplaceAll(text, Head(matches).placeholder,
                                   Expand(st, LeafNamed(st, Head(matches).path))),
                    Tail(matches))
Expand(st, q) ==
    With(GetAt(st, q), LAMBDA leaf :
        IF leaf.t # "str" THEN leaf.v ELSE ExpandInto(st, leaf.v, FindAll(leaf.v)))

\* the errors resolveVariables returns
ResolutionErrors == {"UndefinedVariable", "CircularDependency", "MaxPassesExceeded"}

\* C15 as stated: when no leaf of the store reaches itself along references
\* and every placeholder names a leaf of the store, resolution succeeds and
\* the lookup of a leaf returns its text with every placeholder replaced by
\* the fully resolved value of the leaf it names, however long the chain.
C15_AcyclicStoreResolves ==
    \A p \in Procs :
        (Looked(p) /\ ~Cyclic /\ QualifiedTargets) =>
            /\ result[p].out.err.kind \notin ResolutionErrors
            /\ \A q \in LeafPaths(Store) :
                  key[p] = JoinDots(q) => result[p].out = Outcome(Expand(Store, q), NoErr)

\* the leaves of the store a lookup of key k is a lookup of: by qualified
\* name, or by the path inside the document
LeavesAt(k) == {q \in LeafPaths(Store) : JoinDots(q) = k \/ JoinDots(Tail(q)) = k}

\* path P, not an environment reference, has a value in no document: neither
\* as a qualified path of the store nor as a path inside a loaded document
Missing(P) ==
    /\ Head(P) # "ENV"
    /\ ~walkVariablePath(Store, Split(P, ".")).found
    /\ Holders(P) = {}

\* the placeholder paths of the leaf at path q that the store has no value at
Unfound(q) == {P \in Targets(Store, q) : ~walkVariablePath(Store, Split(P, ".")).found}

C17_NoPlaceholderReturned ==
    \A p \in Procs :
        (Looked(p) /\ result[p].out.err = NoErr) => ~Contains(result[p].out.value, "{{")

\* the environments a process can run in: PORT and DB_PASSWORD unset, or set
Environments ==
    { <<>>, ("PORT" :> <<"8080">>) @@ ("DB_PASSWORD" :> <<"secret">>) }

\* placeholder path P is an environment reference ENV.NAME or ENV.NAME:-default
EnvRef(P) == Len(P) >= 3 /\ P[1] = "ENV" /\ P[2] = "."

\* the default of an environment reference with one
EnvDefault(P) == SubSeq(P, IndexOf(P, ":-") + 1, Len(P))

\* the string leaves of the store whose text is one environment reference
EnvLeaves ==
    {q \in LeafPaths(Store) :
        With(GetAt(Store, q), LAMBDA leaf :
            /\ leaf.t = "str"
            /\ Len(FindAll(leaf.v)) = 1
            /\ FindAll(leaf.v)[1].placeholder = leaf.v
            /\ EnvRef(FindAll(leaf.v)[1].path))}

\* C18 as stated: in every environment, the lookup of a leaf {{ENV.NAME:-d}}
\* returns NAME's value when NAME is set and d when it is not, and the
\* lookup of a leaf {{ENV.NAME}} with NAME unset fails as unresolved.
C18_EnvPlaceholderResolves ==
    \A p \in Procs : Looked(p) =>
        \A q \in EnvLeaves \cap LeavesAt(key[p]) : \A env \in Environments :
            With(FindAll(GetAt(Store, q).v)[1].path, LAMBDA P :
                IF Contains(P, ":-")
                THEN result[p].out =
                        Outcome(IF P[3] \in DOMAIN env THEN env[P[3]] ELSE EnvDefault(P), NoErr)
                ELSE P[3] \notin DOMAIN env =>
                        result[p].out.value = <<>> /\ result[p].out.err # NoErr)

\* the value the one loaded document that has path P holds there
HeldValue(P) ==
    resolveKey(loadedFiles(fs)[CHOOSE i \in Holders(P) : TRUE].Data, P).value

\* C19 as stated: a leaf whose one placeholder names, without a namespace, a
\* path that exactly one loaded document defines (the placeholder's own
\* document or another) resolves to its text with the placeholder replaced
\* by that document's value, and its lookup returns that.
C19_UnqualifiedReferenceResolves ==
    \A p \in Procs : Looked(p) =>
        \A q \in LeavesAt(key[p]) :
            (/\ OpenLeaves(Store) = {q}
             /\ Cardinality(LeavesAt(key[p])) = 1
             /\ Len(FindAll(GetAt(Store, q).v)) = 1
             /\ Unqualified(FindAll(GetAt(Store, q).v)[1].path)
             /\ Cardinality(LeafHolders(FindAll(GetAt(Store, q).v)[1].path)) = 1
             /\ Cardinality(Holders(FindAll(GetAt(Store, q).v)[1].path)) = 1)
            => With(FindAll(GetAt(Store, q).v)[1], LAMBDA m :
                   result[p].out =
                      Outcome(ReplaceAll(GetAt(Store, q).v, m.placeholder, HeldValue(m.path)),
                              NoErr))

----------------------------------------------------------------------------
(* Properties of the typed accessors, under SpecAccess *)

\* the accessors that take a default
OrAccessors ==
    {"GetOr", "GetIntOr", "GetBoolOr", "GetFloatOr", "GetDurationOr",
     "GetStringSliceOr", "GetIntSliceOr"}

\* caller p has called Get or an accessor with a default
Called(p) == pc[p] = "done" /\ result[p].via \in OrAccessors \cup {"Get"}

\* the texts that read as true, and as false
TrueTexts == {<<"true">>, <<"True">>, <<"TRUE">>, <<"yes">>, <<"Yes">>, <<"YES">>, <<"1">>}
FalseTexts == {<<"false">>, <<"False">>, <<"FALSE">>, <<"no">>, <<"No">>, <<"NO">>, <<"0">>}

\* the conversion of accessor name accepts the resolved string v
Converts(name, v) ==
    CASE name = "GetIntOr" -> Atoi(v).ok
      [] name = "GetBoolOr" -> v \in TrueTexts \cup FalseTexts
      [] name = "GetFloatOr" -> ParseFloat(v).ok
      [] name = "GetDurationOr" -> ParseDuration(v).ok
      [] name = "GetIntSliceOr" ->
           v = <<>> \/ \A i \in 1..Len(TrimmedParts(v)) :
                          TrimmedParts(v)[i] = <<>> \/ Atoi(TrimmedParts(v)[i]).ok
      [] OTHER -> TRUE

\* the resolved string v as accessor name returns it
Converted(name, v) ==
    CASE name = "GetIntOr" -> Atoi(v).n
      [] name = "GetBoolOr" -> v \in TrueTexts
      [] name = "GetFloatOr" -> ParseFloat(v).n
      [] name = "GetDurationOr" -> ParseDuration(v).n
      [] name = "GetStringSliceOr" -> IF v = <<>> THEN <<>> ELSE TrimmedParts(v)
      [] name = "GetIntSliceOr" ->
           IF v = <<>> THEN <<>>
           ELSE [i \in 1..Len(TrimmedParts(v)) |->
                    IF TrimmedParts(v)[i] = <<>> THEN 0 ELSE Atoi(TrimmedParts(v)[i]).n]
      [] OTHER -> v

\* C20: Get panics exactly when the lookup returned an error and otherwise
\* returns the resolved string; an accessor with a default never panics,
\* returns the default when the lookup returned an error of any kind or the
\* conversion fails, and the converted resolved value otherwise.
C20_GetPanicsOrAccessorsDefault ==
    \A p \in Procs : Called(p) =>
        With(result[p], LAMBDA r :
            IF r.via = "Get"
            THEN /\ r.ret.panic <=> r.out.err # NoErr
                 /\ ~r.ret.panic => r.ret.value = r.out.value
            ELSE /\ ~r.ret.panic
                 /\ IF r.out.err # NoErr \/ ~Converts(r.via, r.out.value)
                    THEN r.ret.value = r.def
                    ELSE r.ret.value = Converted(r.via, r.out.value))

\* Get("server.missing") has panicked on the not-found error, and
\* GetOr("server.missing", "default") has returned the default on it
C20_Witness ==
    /\ Called(1) /\ Called(2)
    /\ key[1] = <<"server", ".", "missing">> /\ key[2] = <<"server", ".", "missing">>
    /\ result[2].via = "Get" /\ result[2].out.err.kind = "NotFound" /\ result[2].ret.panic
    /\ result[1].via = "GetOr" /\ result[1].out.err.kind = "NotFound"
    /\ result[1].ret = Returned(<<"default">>)

\* the words a boolean can be written as, in lower case, of the texts that
\* are letter-case variants of one
FoldedWord ==
    (<<"true">> :> "true") @@ (<<"True">> :> "true") @@ (<<"TRUE">> :> "true")
    @@ (<<"tRUE">> :> "true")
    @@ (<<"yes">> :> "yes") @@ (<<"Yes">> :> "yes") @@ (<<"YES">> :> "yes")
    @@ (<<"false">> :> "false") @@ (<<"False">> :> "false") @@ (<<"FALSE">> :> "false")
    @@ (<<"no">> :> "no") @@ (<<"No">> :> "no") @@ (<<"NO">> :> "no")
    @@ (<<"1">> :> "1") @@ (<<"0">> :> "0")

\* C21 as stated: GetBool of a key whose lookup succeeds returns true for
\* true, 1 and yes and false for false, 0 and no in every letter case, and
\* panics for every other resolved string.
C21_GetBoolAnyCase ==
    \A p \in Procs :
        (pc[p] = "done" /\ result[p].via = "GetBool" /\ result[p].out.err = NoErr) =>
            With(result[p].out.value, LAMBDA v :
                IF v \in DOMAIN FoldedWord
                THEN /\ ~result[p].ret.panic
                     /\ result[p].ret.value = (FoldedWord[v] \in {"true", "1", "yes"})
                ELSE result[p].ret.panic)

----------------------------------------------------------------------------
(* Progress of the cache, under FairSpec *)

\* caller p is inside getValueFromCache
Inside(p) == pc[p] \in {"rlock", "rcheck", "wlock", "recheck", "stamp", "load"}

\* C22: under fair scheduling every lookup call that has been entered
\* returns, whatever the other caller, clearCache and the file system do.
C22_EveryCallReturns == \A p \in Procs : Inside(p) ~> pc[p] = "done"

\* one caller has returned from a rebuild while the other waits for the
\* write lock it has just released
C22_Witness ==
    /\ pc[1] = "done" /\ result[1].via = "rebuild"
    /\ pc[2] = "wlock"

----------------------------------------------------------------------------
(* Properties of the pass loop, under SpecResolve *)

\* what resolveVariables makes of the store, for each order a run can visit
\* the leaves in
Resolutions == {resolveVariables(Store, ord) : ord \in LoadOrders(fs)}

\* C23: the resolution of the store a lookup ran on, cyclic or not, has run
\* at least one and at most 10 passes and has returned a store or one of the
\* resolver's errors.
C23_AtMostTenPasses ==
    \A p \in Procs : Looked(p) =>
        \A r \in Resolutions :
            /\ r.passes >= 1 /\ r.passes <= 10
            /\ r.err = NoErr \/ r.err.kind \in ResolutionErrors

\* a lookup has succeeded on a store without a cycle whose resolution takes
\* all 10 passes in one of the visiting orders
C23_Witness ==
    /\ Looked(1)
    /\ ~Cyclic
    /\ \E r \in Resolutions : r.passes = 10 /\ r.err = NoErr
    /\ result[1].out.err = NoErr


\* the path a circular-dependency error of caller p names, element by element
ReportedPath(p) == Split(result[p].out.err.subject, "->")

\* the string leaf of store st named n holds a placeholder for the name m
References(st, n, m) ==
    \E q \in LeafPaths(st) : JoinDots(q) = n /\ m \in Targets(st, q)

\* C24 as stated: the path a circular-dependency error names is a cycle of
\* the references of the store: each element references the next, and the
\* last element is the first.
C24_ReportedPathIsACycle ==
    \A p \in Procs :
        (Looked(p) /\ result[p].out.err.kind = "CircularDependency") =>
            With(Store, LAMBDA st :
                With(ReportedPath(p), LAMBDA path :
                    /\ Len(path) >= 2
                    /\ path[Len(path)] = path[1]
                    /\ \A i \in 1..(Len(path) - 1) :
                           References(st, path[i], path[i + 1])))


\* text with the placeholders of matches taken out
RECURSIVE Residue(_, _)
Residue(text, matches) ==
    IF matches = <<>> THEN text
    ELSE Residue(ReplaceAll(text, Head(matches).placeholder, <<>>), Tail(matches))

\* the string leaves of store st that hold an opening delimiter outside every
\* placeholder
Unformed(st) ==
    {q \in LeafPaths(st) :
        With(GetAt(st, q), LAMBDA leaf :
            leaf.t = "str" /\ Contains(Residue(leaf.v, FindAll(leaf.v)), "{{"))}

Plain(st) == \A q \in LeafPaths(st) : ~Contains(GetAt(st, q).v, "{{")

\* resolving store st returns st itself, in whatever order the leaves are
\* visited
ResolvesToItself(st) ==
    \A ord \in Orders(OpenLeaves(st)) :
        With(resolveVariables(st, ord), LAMBDA r : r.err = NoErr /\ r.data = st)

\* C26: the store a successful resolution returns resolves to itself, and so
\* does a store none of whose leaves holds an opening delimiter.
C26_ResolvedStoreIsFixed ==
    With(Store, LAMBDA st :
        /\ \A r \in Resolutions : r.err = NoErr => ResolvesToItself(r.data)
        /\ Plain(st) => ResolvesToItself(st))

\* a lookup has succeeded in a store whose resolution replaced a placeholder,
\* and the store it returned resolves to itself
C26_Witness ==
    /\ Looked(1) /\ result[1].out.err = NoErr
    /\ \E r \in Resolutions :
           r.err = NoErr /\ r.data # Store /\ ResolvesToItself(r.data)


----------------------------------------------------------------------------
(* Properties of the rebuild, under Spec *)

C28_OutcomeIndependentOfOrder ==
    \A r1, r2 \in Resolutions :
        /\ r1.err.kind = r2.err.kind
        /\ r1.err = NoErr => r1.data = r2.data


----------------------------------------------------------------------------
(* Properties of a failed resolution, under SpecAccess *)

\* C29: when resolution of the store fails, every call ends with no value
\* and with the error of the resolution, whatever the key and whichever
\* document holds it, and Exists returns false.
C29_ResolutionErrorFailsEveryLookup ==
    (\E p \in Procs : pc[p] = "done") =>
        With(Resolutions, LAMBDA R :
            (\A res \in R : res.err # NoErr) =>
                \A p \in Procs : pc[p] = "done" =>
                    With(result[p], LAMBDA r :
                        /\ r.out.value = <<>>
                        /\ r.out.err \in {res.err : res \in R}
                        /\ r.out.err.kind \in ResolutionErrors
                        /\ r.via = "Exists" => (~r.ret.panic /\ r.ret.value = FALSE)))

\* db.toml holds a cycle, app.toml holds server.port and no placeholder:
\* Exists("server.port") has returned false on the error of the resolution,
\* and GetOr("server.port", "default") has returned its default on it
C29_Witness ==
    /\ pc[1] = "done" /\ pc[2] = "done"
    /\ fs[<<"app", ".", "toml">>].doc = "typed" /\ fs[<<"db", ".", "toml">>].doc = "cycle"
    /\ key[1] = <<"server", ".", "port">> /\ key[2] = <<"server", ".", "port">>
    /\ result[2].via = "Exists" /\ result[2].out.err.kind = "CircularDependency"
    /\ result[2].ret.value = FALSE
    /\ result[1].via = "GetOr" /\ result[1].out.err.kind = "CircularDependency"
    /\ result[1].ret = Returned(<<"default">>)


----------------------------------------------------------------------------
(* Properties of the recorded times, under Spec *)

\* C30: the times a rebuild records are those the documents had before it
\* read them, so no recorded time is later than its document's, and a
\* document rewritten with a later modification time since the times were
\* recorded, while the rebuild was still to read it or after, is seen as
\* changed: no caller at its check is answered from the cache.
C30_WriteSinceStampIsDetected ==
    /\ \A f \in Range(findTOMLFiles(fs)) \cap DOMAIN fileCache : fileCache[f] <= fs[f].mtime
    /\ \A f \in dirty :
          /\ f \in Range(findTOMLFiles(fs))
          /\ f \in DOMAIN fileCache => fileCache[f] < fs[f].mtime
    /\ dirty # {} =>
          \A p \in Procs : pc[p] \in {"rcheck", "recheck"} => ~FastPathHit(key[p])

\* a caller has recorded the times and is about to read the documents; since
\* then app.toml was rewritten with a later time than the recorded one, and
\* the rewrite counts as a change
C30_Witness ==
    \E p \in Procs :
        /\ pc[p] = "load"
        /\ dirty = {App}
        /\ App \in DOMAIN fileCache /\ fileCache[App] < fs[App].mtime
        /\ filesChanged

====
